---- MODULE Spec2Model ----
(***************************************************************************)
(* Model of the HLK-LD2450 presence sensor driver (xsns_124_ld2450.ino):   *)
(* the byte-at-a-time frame assembler, the target decoder, the zone        *)
(* classifier, the presence status query and the configuration store.      *)
(***************************************************************************)
EXTENDS Integers, Sequences, FiniteSets, TLC

\* ------------------------------------------------------------------------
\* Program constants
\* ------------------------------------------------------------------------
LD2450_START_DELAY == 10
LD2450_DEFAULT_TIMEOUT == 5
LD2450_DIST_MAX == 6000
LD2450_TARGET_MAX == 3
LD2450_MSG_SIZE_MAX == 32

TCP_CLIENT_MAX == 2

TCP_DATA_MAX == 64

\* ------------------------------------------------------------------------
\* Bounds of the model
\* ------------------------------------------------------------------------
\* corrupted or restarted bytes the serial line may inject in one run
MaxFaults == 1
\* uptime (seconds) at which the model starts, and the seconds it lets pass
FirstUptime == 11
MaxTicks == 1
\* LocalTime () - uptime: the wall clock at boot
BootTime == 1000

\* most bytes the serial port holds unread
MaxAvail == 3

\* most bytes of line noise before the sensor's first frame
MaxNoise == 33

\* most connections the TCP relay receives
MaxConns == 4

\* ------------------------------------------------------------------------
\* Fixed-width integer conversions
\* ------------------------------------------------------------------------
ToUint8(n) == n % 256

\* a uint32_t as two 16-bit halves (the checker's integers are 32-bit signed)
U32(n) == [hi |-> n \div 65536, lo |-> n % 65536]

UINT32_MAX == [hi |-> 65535, lo |-> 65535]

\* a + b in uint32_t arithmetic: the carry out of bit 31 is lost
Add32(a, b) ==
  [hi |-> (a.hi + b.hi + ((a.lo + b.lo) \div 65536)) % 65536,
   lo |-> (a.lo + b.lo) % 65536]

\* a > b on uint32_t
Gt32(a, b) == a.hi > b.hi \/ (a.hi = b.hi /\ a.lo > b.lo)

ToInt16(n) == ((n + 32768) % 65536) - 32768

TruncDiv_Floor(a, b) == a \div b

\* C integer division truncates toward zero
TruncDiv(a, b) == IF a >= 0 THEN a \div b ELSE -((-a) \div b)

RECURSIVE SqrtSearch(_, _, _)
SqrtSearch(n, lo, hi) ==
  IF lo >= hi THEN lo
  ELSE LET mid == (lo + hi + 1) \div 2
       IN IF mid * mid <= n THEN SqrtSearch(n, mid, hi)
          ELSE SqrtSearch(n, lo, mid - 1)

\* (uint16_t) sqrt (v): the conversion of the double to an integer truncates
\* (the search stops at 46340, the largest root of a 31-bit radicand)
SqrtTrunc(n) == SqrtSearch(n, 0, 46340)

\* ------------------------------------------------------------------------
\* The sensor's frames, as the serial line delivers them
\* ------------------------------------------------------------------------
HeaderBytes == <<170, 255, 3, 0>>

FooterBytes == <<85, 204>>

\* sensor encoding of a signed quantity: sign bit 0x8000 plus 15-bit magnitude
Enc(d) == IF d >= 0 THEN d ELSE 32768 - d

\* a target at zone coordinates (x, y): the sensor's y axis is inverted
Tgt(x, y, s) == [x |-> Enc(x), y |-> Enc(-y), s |-> Enc(s)]

\* raw 16-bit fields of the three target slots of each frame the sensor sends
RawFrames ==
  << <<Tgt(-6000, 0, 10), Tgt(6000, 6000, -10), Tgt(-6001, 0, 0)>>,
     <<Tgt(0, 0, 0), Tgt(3000, 3000, 5), Tgt(-1, 0, 0)>> >>

\* 8 bytes of one target record: x, y, speed little-endian, then resolution
TargetBytes(t) ==
  <<t.x % 256, t.x \div 256, t.y % 256, t.y \div 256,
    t.s % 256, t.s \div 256, 0, 0>>

FrameBytes(f) ==
  HeaderBytes \o TargetBytes(RawFrames[f][1]) \o TargetBytes(RawFrames[f][2])
              \o TargetBytes(RawFrames[f][3]) \o FooterBytes

\* the value a corrupted byte takes on the line, in place of byte b
Noise(b) == IF b = 0 THEN 204 ELSE 0

VARIABLES
  idx_body,       \* ld2450_received.idx_body
  arr_body,       \* ld2450_received.arr_body, indexed 0..31
  arr_last,       \* ld2450_received.arr_last, indexed 0..3
  ld2450_config,  \* timeout, x1, x2, y1, y2
  free_ea6,       \* Settings->free_ea6[25..29]
  ld2450_status,  \* pserial (not null), enabled, counter, timestamp
  ld2450_target,  \* the 3 target records
  uptime,         \* TasmotaGlobal.uptime
  local_time,     \* Rtc.local_time, the value LocalTime () returns
  msg_logged,     \* LD2450LogMessage () was called by the last step
  query,          \* the last call of LD2450GetDetectionStatus: delay and result
  active_at,      \* LocalTime () at the last completed frame with an active target
  tx,             \* the sensor's transmitter: frame, position, faults so far
  rx,             \* the serial port: bytes received and not yet read, and the
                  \* call of LD2450ReceiveData in progress
  tcp_server,     \* the TCPServer instance: server, client, client_next, buffer_index
  net             \* the network seen by tcp_server, and what its last send wrote

vars == <<idx_body, arr_body, arr_last, ld2450_config, free_ea6, ld2450_status,
          ld2450_target, uptime, local_time, msg_logged, query, active_at, tx,
          rx, tcp_server, net>>

\* the TCP relay (xdrv_97)
relay_vars == <<tcp_server, net>>

\* what a step of the LD2450 driver that reads no queued byte leaves alone
other_vars == <<rx, relay_vars>>

recv_vars == <<idx_body, arr_body, arr_last>>

cfg_vars == <<ld2450_config, free_ea6>>

\* LocalTime (): Rtc.local_time, a uint32_t
LocalTime == local_time

\* ------------------------------------------------------------------------
\* Configuration store
\* ------------------------------------------------------------------------
LoadRaw(s) ==
  [timeout |-> s[25],
   x1 |-> (s[26] - 128) * 100,
   x2 |-> (s[27] - 128) * 100,
   y1 |-> (s[28] - 128) * 100,
   y2 |-> (s[29] - 128) * 100]

ClampX1(c) == IF c.x1 < -LD2450_DIST_MAX THEN [c EXCEPT !.x1 = -LD2450_DIST_MAX] ELSE c

ClampX2(c) == IF c.x2 > LD2450_DIST_MAX THEN [c EXCEPT !.x2 = LD2450_DIST_MAX] ELSE c

ClampY1(c) == IF c.y1 < 0 THEN [c EXCEPT !.y1 = 0] ELSE c

ClampY2(c) == IF c.y2 > LD2450_DIST_MAX THEN [c EXCEPT !.y2 = LD2450_DIST_MAX] ELSE c

FixTimeout(c) == IF c.timeout = 0 THEN [c EXCEPT !.timeout = LD2450_DEFAULT_TIMEOUT] ELSE c

FixX_Strict(c) == IF c.x2 < c.x1 THEN [c EXCEPT !.x2 = LD2450_DIST_MAX] ELSE c

FixX(c) == IF c.x2 <= c.x1 THEN [c EXCEPT !.x2 = LD2450_DIST_MAX] ELSE c

FixY(c) == IF c.y2 <= c.y1 THEN [c EXCEPT !.y2 = LD2450_DIST_MAX] ELSE c

\* LD2450LoadConfig: decode the 5 bytes, then validate in the code's order
LoadConfig(s) ==
  FixY(FixX(ClampY2(ClampY1(ClampX2(ClampX1(FixTimeout(LoadRaw(s))))))))

\* LD2450SaveConfig: byte = (uint8_t)((value / 100) + 128)
SaveConfig(c) ==
  (25 :> ToUint8(c.timeout)) @@
  (26 :> ToUint8(TruncDiv(c.x1, 100) + 128)) @@
  (27 :> ToUint8(TruncDiv(c.x2, 100) + 128)) @@
  (28 :> ToUint8(TruncDiv(c.y1, 100) + 128)) @@
  (29 :> ToUint8(TruncDiv(c.y2, 100) + 128))

DefaultConfig ==
  [timeout |-> LD2450_DEFAULT_TIMEOUT, x1 |-> -LD2450_DIST_MAX,
   x2 |-> LD2450_DIST_MAX, y1 |-> 0, y2 |-> LD2450_DIST_MAX]

\* ------------------------------------------------------------------------
\* Presence status query
\* ------------------------------------------------------------------------
\* timeout used by the query: the configured one when delay is 0 or UINT32_MAX
QueryTimeout(delay, cfg) ==
  IF delay = U32(0) \/ delay = UINT32_MAX THEN U32(cfg.timeout) ELSE delay

\* ld2450_status.timestamp + timeout, in uint32_t arithmetic
QueryDeadline(ts, timeout) == Add32(ts, timeout)

\* LD2450GetDetectionStatus (delay), evaluated at wall-clock time now
GetDetectionStatus(ts, delay, cfg, now) ==
  IF ts = U32(0) THEN FALSE
  ELSE Gt32(QueryDeadline(ts, QueryTimeout(delay, cfg)), now)

\* ------------------------------------------------------------------------
\* Frame assembler and target decoder (one pass of the receive loop)
\* ------------------------------------------------------------------------
CanAppend_OffByOne(idx) == idx <= LD2450_MSG_SIZE_MAX

\* arr_body[idx_body++] = recv_data, guarded by the capacity test
CanAppend(idx) == idx < LD2450_MSG_SIZE_MAX

\* a store at index i: one past the end of the array lands outside of it
StoreByte(body, i, b) ==
  [j \in (DOMAIN body) \cup {i} |-> IF j = i THEN b ELSE body[j]]

AppendBody(body, idx, b) == IF CanAppend(idx) THEN StoreByte(body, idx, b) ELSE body

AppendIdx(idx) == IF CanAppend(idx) THEN ToUint8(idx + 1) ELSE idx

\* arr_last shifted by one, the new byte last
PushLast(last, b) == [i \in 0..3 |-> IF i < 3 THEN last[i + 1] ELSE b]

\* *pheader == 0x0003ffaa on the little-endian target
IsHeader(last) == last[0] = 170 /\ last[1] = 255 /\ last[2] = 3 /\ last[3] = 0

\* *pfooter == 0xcc55
IsFooter(last) == last[2] = 85 /\ last[3] = 204

IsMessage_NoFooter(idx, last) == idx = 30

\* the test of the data-message branch
IsMessage(idx, last) == idx = 30 /\ IsFooter(last)

\* memcpy (arr_body, arr_last, 4)
CopyHeader(body, last) == [j \in DOMAIN body |-> IF j < 4 THEN last[j] ELSE body[j]]

HeaderReset_IdxZero(body, idx, last) == [body |-> CopyHeader(body, last), idx |-> 0]

HeaderReset_KeepIdx(body, idx, last) == [body |-> CopyHeader(body, last), idx |-> idx]

\* the header branch: the window becomes the start of the body, idx_body = 4
HeaderReset(body, idx, last) == [body |-> CopyHeader(body, last), idx |-> 4]

\* *(int16_t*)(arr_body + off)
ReadInt16(body, off) == ToInt16(body[off] + 256 * body[off + 1])

SignCorrect_OffByOne(v) == IF v < 0 THEN ToInt16(0 - v - 32767) ELSE v

\* if (v < 0) v = 0 - v - 32768, stored back into the int16_t
SignCorrect(v) == IF v < 0 THEN ToInt16(0 - v - 32768) ELSE v

DecodeX(body, start) == SignCorrect(ReadInt16(body, start))

DecodeY_NoFlip(body, start) == SignCorrect(ReadInt16(body, start + 2))

DecodeY(body, start) == ToInt16(0 - SignCorrect(ReadInt16(body, start + 2)))

DecodeSpeed_Raw(body, start) == ReadInt16(body, start + 4)

DecodeSpeed(body, start) == SignCorrect(ReadInt16(body, start + 4))

Distance_RoundUp(x, y) ==
  LET n == x * x + y * y
      r == SqrtTrunc(n)
  IN (IF r * r = n THEN r ELSE r + 1) % 65536

\* (uint16_t) sqrt (pow (x, 2) + pow (y, 2))
Distance(x, y) == SqrtTrunc(x * x + y * y) % 65536

InZone_NoDist(x, y, dist, cfg) ==
  /\ x >= cfg.x1 /\ x <= cfg.x2
  /\ y >= cfg.y1 /\ y <= cfg.y2

InZone_OpenX1(x, y, dist, cfg) ==
  /\ dist > 0
  /\ x > cfg.x1 /\ x <= cfg.x2
  /\ y >= cfg.y1 /\ y <= cfg.y2

\* the three statements that compute ld2450_target[index].zone
InZone(x, y, dist, cfg) ==
  /\ dist > 0
  /\ x >= cfg.x1 /\ x <= cfg.x2
  /\ y >= cfg.y1 /\ y <= cfg.y2

DecodeTarget_ClampToZone(body, index, cfg) ==
  LET start == 4 + index * 8
      x0 == DecodeX(body, start)
      x == IF x0 > cfg.x2 THEN cfg.x2 ELSE x0
      y == DecodeY(body, start)
      d == Distance(x, y)
  IN [x |-> x, y |-> y, speed |-> DecodeSpeed(body, start), dist |-> d,
      zone |-> InZone(x, y, d, cfg)]

DecodeTarget(body, index, cfg) ==
  LET start == 4 + index * 8
      x == DecodeX(body, start)
      y == DecodeY(body, start)
      d == Distance(x, y)
  IN [x |-> x, y |-> y, speed |-> DecodeSpeed(body, start), dist |-> d,
      zone |-> InZone(x, y, d, cfg)]

DecodeTargets(body, cfg) == [i \in 0..(LD2450_TARGET_MAX - 1) |-> DecodeTarget(body, i, cfg)]

CounterStart_Keep(counter) == counter

\* ld2450_status.counter = 0, before the loop over the targets
CounterStart(counter) == 0

\* the increments of ld2450_status.counter in the loop over the targets
CountActive(targets) == Cardinality({i \in DOMAIN targets : targets[i].zone})

NewTimestamp_Always(counter, ts, now) == now

NewTimestamp_Clear(counter, ts, now) == IF counter > 0 THEN now ELSE [hi |-> 0, lo |-> 0]

\* if (counter > 0) timestamp = LocalTime ()
NewTimestamp(counter, ts, now) == IF counter > 0 THEN now ELSE ts

Started_Inclusive(up) == up >= LD2450_START_DELAY

\* the guard of the loop body: TasmotaGlobal.uptime > LD2450_START_DELAY
Started(up) == up > LD2450_START_DELAY

\* the body of the receive loop for one byte read from the serial port
ProcessByte(b) ==
  IF ~Started(uptime)
  THEN /\ msg_logged' = FALSE
       /\ UNCHANGED <<recv_vars, ld2450_status, ld2450_target, active_at>>
  ELSE LET body1 == AppendBody(arr_body, idx_body, b)
           idx1 == AppendIdx(idx_body)
           last1 == PushLast(arr_last, b)
       IN /\ arr_last' = last1
          /\ IF IsHeader(last1)
             THEN /\ arr_body' = HeaderReset(body1, idx1, last1).body
                  /\ idx_body' = HeaderReset(body1, idx1, last1).idx
                  /\ msg_logged' = FALSE
                  /\ UNCHANGED <<ld2450_status, ld2450_target, active_at>>
             ELSE IF IsMessage(idx1, last1)
             THEN LET targets == DecodeTargets(body1, ld2450_config)
                      counter == CounterStart(ld2450_status.counter) + CountActive(targets)
                  IN /\ arr_body' = body1
                     /\ idx_body' = 0
                     /\ msg_logged' = TRUE
                     /\ ld2450_target' = targets
                     /\ active_at' = IF \E i \in DOMAIN targets : targets[i].zone
                                     THEN LocalTime ELSE active_at
                     /\ ld2450_status' =
                          [ld2450_status EXCEPT
                             !.counter = counter,
                             !.timestamp = NewTimestamp(counter, @, LocalTime)]
             ELSE /\ arr_body' = body1
                  /\ idx_body' = idx1
                  /\ msg_logged' = FALSE
                  /\ UNCHANGED <<ld2450_status, ld2450_target, active_at>>

\* ------------------------------------------------------------------------
\* The serial line: what the next byte read is
\* ------------------------------------------------------------------------
NumFrames == Len(RawFrames)

\* the transmitter after sending the byte at tx.pos of its frame
TxAdvance(t, f) ==
  IF t.pos = 29 THEN [t EXCEPT !.frame = f, !.pos = 0]
  ELSE [t EXCEPT !.pos = t.pos + 1]

\* the sensor sends the next byte of its frame, and it arrives intact
LineGood ==
  \E f \in 1..NumFrames :
    /\ (tx.pos # 29 => f = tx.frame)
    /\ ProcessByte(FrameBytes(tx.frame)[tx.pos + 1])
    /\ tx' = TxAdvance(tx, f)

\* positions of the header and footer bytes within a frame
FramingPos == {0, 1, 2, 3, 28, 29}

\* a byte of the frame's header or footer arrives corrupted (a corrupted
\* payload byte is one more frame of RawFrames)
LineCorrupt ==
  \E f \in 1..NumFrames :
    /\ tx.faults < MaxFaults
    /\ tx.pos \in FramingPos
    /\ (tx.pos # 29 => f = tx.frame)
    /\ ProcessByte(Noise(FrameBytes(tx.frame)[tx.pos + 1]))
    /\ tx' = [TxAdvance(tx, f) EXCEPT !.faults = tx.faults + 1]

\* positions at which the model lets the line lose the rest of a frame: within
\* the header, right after it, within the payload, before and within the footer
RestartPos == {2, 4, 17, 28, 29}

\* the rest of the frame is lost: the next byte read starts the frame again
LineRestart ==
  /\ tx.faults < MaxFaults
  /\ tx.pos \in RestartPos
  /\ ProcessByte(FrameBytes(tx.frame)[1])
  /\ tx' = [tx EXCEPT !.pos = 1, !.faults = tx.faults + 1]

\* LD2450ReceiveData, one byte of the loop (FUNC_LOOP, driver enabled)
LD2450ReceiveData ==
  /\ ld2450_status.enabled
  /\ (LineGood \/ LineCorrupt \/ LineRestart)
  /\ UNCHANGED <<cfg_vars, uptime, local_time, query, other_vars>>

\* ------------------------------------------------------------------------
\* Commands
\* ------------------------------------------------------------------------
\* XdrvMailbox.data of a command: empty, or the integers atoi reads from the
\* tokens strtok splits it into
NoData == [empty |-> TRUE, tok |-> <<>>]

Data(tokens) == [empty |-> FALSE, tok |-> tokens]

\* atoi (pstr_token) assigned to an int16_t field
Atoi16(n) == ToInt16(n)

\* the switch of CmndLD2450Zone over the token count
ZoneTokens(c, tok) ==
  [c EXCEPT !.x1 = IF Len(tok) >= 1 THEN Atoi16(tok[1]) ELSE @,
            !.x2 = IF Len(tok) >= 2 THEN Atoi16(tok[2]) ELSE @,
            !.y1 = IF Len(tok) >= 3 THEN Atoi16(tok[3]) ELSE @,
            !.y2 = IF Len(tok) >= 4 THEN Atoi16(tok[4]) ELSE @]

\* the switch of CmndLD2450Dist over the token count, then the forced x values
DistTokens(c, tok) ==
  [c EXCEPT !.y1 = IF Len(tok) >= 1 THEN Atoi16(tok[1]) ELSE @,
            !.y2 = IF Len(tok) >= 2 THEN Atoi16(tok[2]) ELSE @,
            !.x1 = -LD2450_DIST_MAX,
            !.x2 = LD2450_DIST_MAX]

ResetZone_KeepY1(c) ==
  [c EXCEPT !.x1 = -LD2450_DIST_MAX, !.x2 = LD2450_DIST_MAX, !.y2 = LD2450_DIST_MAX]

\* the assignments of CmndLD2450Reset
ResetZone(c) ==
  [c EXCEPT !.x1 = -LD2450_DIST_MAX, !.x2 = LD2450_DIST_MAX,
            !.y1 = 0, !.y2 = LD2450_DIST_MAX]

\* ld2450_config.timeout = XdrvMailbox.payload, a uint8_t
SetTimeout(c, payload) == [c EXCEPT !.timeout = ToUint8(payload)]

cmd_frame == <<recv_vars, ld2450_status, ld2450_target, uptime, local_time, query, active_at,
               tx, other_vars>>

Timeout(payload) ==
  /\ IF payload > 0
     THEN /\ ld2450_config' = SetTimeout(ld2450_config, payload)
          /\ free_ea6' = SaveConfig(ld2450_config')
     ELSE UNCHANGED cfg_vars
  /\ msg_logged' = FALSE
  /\ UNCHANGED cmd_frame

Reset ==
  /\ ld2450_config' = ResetZone(ld2450_config)
  /\ free_ea6' = SaveConfig(ld2450_config')
  /\ msg_logged' = FALSE
  /\ UNCHANGED cmd_frame

Dist(data) ==
  /\ IF ~data.empty
     THEN /\ free_ea6' = SaveConfig(DistTokens(ld2450_config, data.tok))
          /\ ld2450_config' = LoadConfig(free_ea6')
     ELSE UNCHANGED cfg_vars
  /\ msg_logged' = FALSE
  /\ UNCHANGED cmd_frame

Zone(data) ==
  /\ IF ~data.empty
     THEN /\ free_ea6' = SaveConfig(ZoneTokens(ld2450_config, data.tok))
          /\ ld2450_config' = LoadConfig(free_ea6')
     ELSE UNCHANGED cfg_vars
  /\ msg_logged' = FALSE
  /\ UNCHANGED cmd_frame

\* command arguments of the model of the whole driver
TimeoutPayloads == {0, 1}

DistData == {NoData}

ZoneData == {Data(<<0, 3000, 0, 3000>>)}

CmndLD2450Timeout == \E payload \in TimeoutPayloads : Timeout(payload)

CmndLD2450Reset == Reset

CmndLD2450Dist == \E data \in DistData : Dist(data)

CmndLD2450Zone == \E data \in ZoneData : Zone(data)

\* one second passes
Tick ==
  /\ uptime < FirstUptime + MaxTicks
  /\ uptime' = uptime + 1
  /\ local_time' = Add32(local_time, U32(1))
  /\ msg_logged' = FALSE
  /\ UNCHANGED <<recv_vars, cfg_vars, ld2450_status, ld2450_target, query, active_at, tx, other_vars>>

\* ------------------------------------------------------------------------
\* Initial state: after LD2450Init and LD2450InitDevice
\* ------------------------------------------------------------------------
ZeroTarget == [x |-> 0, y |-> 0, speed |-> 0, dist |-> 0, zone |-> FALSE]

\* persisted bytes the driver may find at boot
InitSettings ==
  { (25 :> 0) @@ (26 :> 0) @@ (27 :> 0) @@ (28 :> 0) @@ (29 :> 0) }

NoQuery == [called |-> FALSE]

\* the serial port with nothing received and LD2450ReceiveData not running
RxIdle == [queue |-> <<>>, polling |-> FALSE, entry |-> <<>>, read |-> <<>>]

\* TCPServer::TCPServer (): no server, no client, client_next = buffer_index = 0
TcpConstructed ==
  [server |-> FALSE, client |-> [i \in 0..(TCP_CLIENT_MAX - 1) |-> 0],
   client_next |-> 0, buffer_index |-> 0]

\* no connection waiting, none made so far, nothing sent
NetIdle == [pending |-> FALSE, conns |-> 0, ch |-> 0, wrote |-> 0, to |-> {}, oob |-> FALSE]

InitOther ==
  /\ rx = RxIdle
  /\ tcp_server = TcpConstructed
  /\ net = NetIdle

InitCommon ==
  /\ InitOther
  /\ idx_body = 0
  /\ query = NoQuery
  /\ active_at = U32(0)
  /\ arr_body = [i \in 0..(LD2450_MSG_SIZE_MAX - 1) |-> 0]
  /\ arr_last = [i \in 0..3 |-> 0]
  /\ ld2450_target = [i \in 0..(LD2450_TARGET_MAX - 1) |-> ZeroTarget]
  /\ msg_logged = FALSE

Init ==
  /\ InitCommon
  /\ free_ea6 \in InitSettings
  /\ ld2450_config = LoadConfig(free_ea6)
  /\ ld2450_status = [pserial |-> TRUE, enabled |-> TRUE, counter |-> 0, timestamp |-> U32(0)]
  /\ uptime = FirstUptime
  /\ local_time = U32(BootTime + FirstUptime)
  /\ tx \in [frame : 1..NumFrames, pos : {0}, faults : {0}]

Next ==
  \/ LD2450ReceiveData
  \/ Tick
  \/ CmndLD2450Timeout
  \/ CmndLD2450Reset
  \/ CmndLD2450Dist
  \/ CmndLD2450Zone

Spec == Init /\ [][Next]_vars

\* ------------------------------------------------------------------------
\* The configuration store alone: any persisted bytes, any command arguments
\* ------------------------------------------------------------------------
\* persisted byte values: the erased byte, and the encodings of 0, 6000, 7200
ByteSamples == {0, 128, 188, 200}

\* integers the commands receive as tokens
TokenSamples == {-6100, -150, 6000, 7000}

TokenLists(maxlen) == UNION {[1..n -> TokenSamples] : n \in 0..maxlen}

\* XdrvMailbox.data with up to maxlen tokens
CfgData(maxlen) == {NoData} \cup {Data(t) : t \in TokenLists(maxlen)}

CfgPayloads == {-1, 0, 1, 255, 256, 300}

CfgInit ==
  /\ InitCommon
  /\ free_ea6 \in [25..29 -> ByteSamples]
  /\ ld2450_config = LoadConfig(free_ea6)
  /\ ld2450_status = [pserial |-> TRUE, enabled |-> TRUE, counter |-> 0, timestamp |-> U32(0)]
  /\ uptime = FirstUptime
  /\ local_time = U32(BootTime + FirstUptime)
  /\ tx = [frame |-> 1, pos |-> 0, faults |-> 0]

CfgNext ==
  \/ \E payload \in CfgPayloads : Timeout(payload)
  \/ Reset
  \/ \E data \in CfgData(3) : Dist(data)
  \/ \E data \in CfgData(4) : Zone(data)

SpecConfig == CfgInit /\ [][CfgNext]_vars

\* ------------------------------------------------------------------------
\* The presence query alone: any timestamp, delay and wall-clock time
\* ------------------------------------------------------------------------
TimeSamples == {U32(0), U32(1), U32(1000), U32(1005), [hi |-> 65535, lo |-> 65530]}

DelaySamples == {U32(0), U32(1), U32(5), U32(10), [hi |-> 65535, lo |-> 65534], UINT32_MAX}

\* LD2450GetDetectionStatus (delay), called at the current wall-clock time
LD2450GetDetectionStatus ==
  \E delay \in DelaySamples :
    /\ query' = [called |-> TRUE, delay |-> delay,
                 result |-> GetDetectionStatus(ld2450_status.timestamp, delay,
                                               ld2450_config, LocalTime)]
    /\ UNCHANGED <<recv_vars, cfg_vars, ld2450_status, ld2450_target, uptime,
                   local_time, msg_logged, active_at, tx, other_vars>>

QueryInit ==
  /\ InitCommon
  /\ free_ea6 \in {SaveConfig([DefaultConfig EXCEPT !.timeout = t]) : t \in {0, 1, 255}}
  /\ ld2450_config = LoadConfig(free_ea6)
  /\ \E ts \in TimeSamples :
       ld2450_status = [pserial |-> TRUE, enabled |-> TRUE, counter |-> 0, timestamp |-> ts]
  /\ uptime = FirstUptime
  /\ local_time \in TimeSamples
  /\ tx = [frame |-> 1, pos |-> 0, faults |-> 0]

QueryNext == LD2450GetDetectionStatus

SpecQuery == QueryInit /\ [][QueryNext]_vars

\* ------------------------------------------------------------------------
\* Save and load alone: any configuration in memory
\* ------------------------------------------------------------------------
\* zone bounds in memory: multiples of 100 within the range, and two that are not
BoundSamples == {-6000, -150, 0, 150, 5900, 6000}

TimeoutSamples == {0, 1, 255}

\* either any configuration in memory over erased bytes, or any persisted
\* bytes under the configuration of the structure's initialiser
StoreInit ==
  /\ InitCommon
  /\ \/ /\ free_ea6 \in InitSettings
        /\ ld2450_config \in [timeout : TimeoutSamples, x1 : BoundSamples, x2 : BoundSamples,
                              y1 : BoundSamples, y2 : BoundSamples]
     \/ /\ free_ea6 \in [25..29 -> ByteSamples]
        /\ ld2450_config = DefaultConfig
  /\ ld2450_status = [pserial |-> TRUE, enabled |-> TRUE, counter |-> 0, timestamp |-> U32(0)]
  /\ uptime = FirstUptime
  /\ local_time = U32(BootTime + FirstUptime)
  /\ tx = [frame |-> 1, pos |-> 0, faults |-> 0]

\* LD2450SaveConfig ()
LD2450SaveConfig ==
  /\ free_ea6' = SaveConfig(ld2450_config)
  /\ UNCHANGED <<ld2450_config, msg_logged>>
  /\ UNCHANGED cmd_frame

\* LD2450LoadConfig ()
LD2450LoadConfig ==
  /\ ld2450_config' = LoadConfig(free_ea6)
  /\ UNCHANGED <<free_ea6, msg_logged>>
  /\ UNCHANGED cmd_frame

StoreNext == LD2450SaveConfig \/ LD2450LoadConfig

SpecStore == StoreInit /\ [][StoreNext]_vars

\* ------------------------------------------------------------------------
\* The driver from before LD2450InitDevice: the serial port may never open
\* ------------------------------------------------------------------------
\* LD2450InitDevice (): pins tells whether both GPIOs are assigned, begin is
\* the result of TasmotaSerial::begin
InitDevice(pins, begin) ==
  /\ IF ~ld2450_status.pserial /\ pins
     THEN ld2450_status' = [ld2450_status EXCEPT !.pserial = TRUE, !.enabled = begin]
     ELSE UNCHANGED ld2450_status
  /\ msg_logged' = FALSE
  /\ UNCHANGED <<recv_vars, cfg_vars, ld2450_target, uptime, local_time, query,
                 active_at, tx, other_vars>>

LD2450InitDevice == \E pins \in BOOLEAN, begin \in BOOLEAN : InitDevice(pins, begin)

LoopEnabled_Always(status) == TRUE

\* FUNC_LOOP: if (ld2450_status.enabled) LD2450ReceiveData ()
LoopEnabled(status) == status.enabled

\* LD2450ReceiveData: if (ld2450_status.pserial == nullptr) return
HasSerial(status) == status.pserial

\* Xsns124 (FUNC_LOOP) while the sensor sends on an undisturbed line: one byte
\* is read if the driver polls the port, nothing happens otherwise
Xsns124Loop ==
  IF LoopEnabled(ld2450_status) /\ HasSerial(ld2450_status)
  THEN /\ LineGood
       /\ UNCHANGED <<cfg_vars, uptime, local_time, query, other_vars>>
  ELSE /\ msg_logged' = FALSE
       /\ UNCHANGED <<recv_vars, cfg_vars, ld2450_status, ld2450_target, uptime,
                      local_time, query, active_at, tx, other_vars>>

DeviceInit ==
  /\ InitCommon
  /\ free_ea6 \in InitSettings
  /\ ld2450_config = LoadConfig(free_ea6)
  /\ ld2450_status = [pserial |-> FALSE, enabled |-> FALSE, counter |-> 0,
                      timestamp |-> U32(0)]
  /\ uptime = FirstUptime
  /\ local_time = U32(BootTime + FirstUptime)
  /\ tx \in [frame : 1..NumFrames, pos : {0}, faults : {0}]

DeviceNext ==
  \/ LD2450InitDevice
  \/ Xsns124Loop
  \/ Tick
  \/ LD2450GetDetectionStatus

SpecDevice == DeviceInit /\ [][DeviceNext]_vars

\* ------------------------------------------------------------------------
\* One call of LD2450ReceiveData over the bytes the port holds: bytes arrive
\* between the calls only
\* ------------------------------------------------------------------------
\* the sensor's next byte reaches the port while no call is in progress
SerialArrive ==
  /\ ~rx.polling
  /\ Len(rx.queue) < MaxAvail
  /\ \E f \in 1..NumFrames :
       /\ (tx.pos # 29 => f = tx.frame)
       /\ tx' = TxAdvance(tx, f)
  /\ rx' = [rx EXCEPT !.queue = Append(@, FrameBytes(tx.frame)[tx.pos + 1])]
  /\ msg_logged' = FALSE
  /\ UNCHANGED <<recv_vars, cfg_vars, ld2450_status, ld2450_target, uptime, local_time,
                 query, active_at, relay_vars>>

\* FUNC_LOOP calls LD2450ReceiveData, which has a port
ReceiveEnter ==
  /\ ~rx.polling
  /\ LoopEnabled(ld2450_status) /\ HasSerial(ld2450_status)
  /\ rx' = [rx EXCEPT !.polling = TRUE, !.entry = rx.queue, !.read = <<>>]
  /\ msg_logged' = FALSE
  /\ UNCHANGED <<recv_vars, cfg_vars, ld2450_status, ld2450_target, uptime, local_time,
                 query, active_at, tx, relay_vars>>

MoreData_ButOne(queue) == Len(queue) > 1

\* while (ld2450_status.pserial->available ())
MoreData(queue) == Len(queue) > 0

\* one turn of the loop: pserial->read () and the processing of the byte
ReceiveByte ==
  /\ rx.polling
  /\ MoreData(rx.queue)
  /\ ProcessByte(Head(rx.queue))
  /\ rx' = [rx EXCEPT !.queue = Tail(@), !.read = Append(@, Head(rx.queue))]
  /\ UNCHANGED <<cfg_vars, uptime, local_time, query, tx, relay_vars>>

\* the loop ends and LD2450ReceiveData returns
ReceiveReturn ==
  /\ rx.polling
  /\ ~MoreData(rx.queue)
  /\ rx' = [rx EXCEPT !.polling = FALSE]
  /\ msg_logged' = FALSE
  /\ UNCHANGED <<recv_vars, cfg_vars, ld2450_status, ld2450_target, uptime, local_time,
                 query, active_at, tx, relay_vars>>

PollNext ==
  \/ SerialArrive
  \/ ReceiveEnter
  \/ ReceiveByte
  \/ ReceiveReturn

\* the loop keeps running: the main loop is not preempted for ever
SpecPoll ==
  /\ Init
  /\ [][PollNext]_vars
  /\ WF_vars(ReceiveByte)
  /\ WF_vars(ReceiveReturn)

\* ------------------------------------------------------------------------
\* Resynchronisation: line noise, frames cut short, then frames that arrive whole
\* ------------------------------------------------------------------------
\* byte k of the noise: the byte CC over and over (kind 0), or the two footer
\* bytes 55 CC over and over (kind -1)
FillerByte(kind, k) == IF kind = 0 THEN FooterBytes[2] ELSE FooterBytes[1 + (k % 2)]

\* tx.frame <= 0 tells the kind of noise on the line before the first frame
ResyncInit ==
  /\ InitCommon
  /\ free_ea6 \in InitSettings
  /\ ld2450_config = LoadConfig(free_ea6)
  /\ ld2450_status = [pserial |-> TRUE, enabled |-> TRUE, counter |-> 0, timestamp |-> U32(0)]
  /\ uptime = FirstUptime
  /\ local_time = U32(BootTime + FirstUptime)
  /\ tx \in [frame : {0, -1}, pos : {0}, faults : {0}]

\* LD2450ReceiveData reads a byte of noise
ReceiveNoise ==
  /\ ld2450_status.enabled
  /\ tx.frame <= 0
  /\ tx.pos < MaxNoise
  /\ ProcessByte(FillerByte(tx.frame, tx.pos))
  /\ tx' = [tx EXCEPT !.pos = tx.pos + 1]
  /\ UNCHANGED <<cfg_vars, uptime, local_time, query, other_vars>>

\* LD2450ReceiveData reads the first byte of the sensor's first frame
ReceiveFirst ==
  /\ ld2450_status.enabled
  /\ tx.frame <= 0
  /\ \E f \in 1..NumFrames :
       /\ ProcessByte(FrameBytes(f)[1])
       /\ tx' = [tx EXCEPT !.frame = f, !.pos = 1]
  /\ UNCHANGED <<cfg_vars, uptime, local_time, query, other_vars>>

\* LD2450ReceiveData reads the next byte of the frame
ReceiveGood ==
  /\ ld2450_status.enabled
  /\ tx.frame >= 1
  /\ LineGood
  /\ UNCHANGED <<cfg_vars, uptime, local_time, query, other_vars>>

\* the frame is cut short and LD2450ReceiveData reads the first byte of a new one
ReceiveRestart ==
  /\ ld2450_status.enabled
  /\ tx.frame >= 1
  /\ LineRestart
  /\ UNCHANGED <<cfg_vars, uptime, local_time, query, other_vars>>

ResyncNext ==
  \/ ReceiveNoise
  \/ ReceiveFirst
  \/ ReceiveGood
  \/ ReceiveRestart

\* the sensor keeps sending
SpecResync ==
  /\ ResyncInit
  /\ [][ResyncNext]_vars
  /\ WF_vars(ReceiveGood)

\* ------------------------------------------------------------------------
\* Start-up: the sensor is already sending when the start delay ends
\* ------------------------------------------------------------------------
StartupInit ==
  /\ InitCommon
  /\ free_ea6 \in InitSettings
  /\ ld2450_config = LoadConfig(free_ea6)
  /\ ld2450_status = [pserial |-> TRUE, enabled |-> TRUE, counter |-> 0, timestamp |-> U32(0)]
  /\ uptime = LD2450_START_DELAY - 1
  /\ local_time = U32(BootTime + LD2450_START_DELAY - 1)
  /\ tx \in [frame : 1..NumFrames, pos : {0}, faults : {0}]

StartupNext ==
  \/ Xsns124Loop
  \/ Tick

SpecStartup == StartupInit /\ [][StartupNext]_vars

\* ------------------------------------------------------------------------
\* The TCP relay: TCPServer (xdrv_97_tcp_server)
\* ------------------------------------------------------------------------
\* tcp_server.client[i] is 0 for a client that is not connected, else the
\* number of its connection: connections are numbered as they are accepted,
\* so that the older of two connected clients has the smaller number

\* everything of the LD2450 driver
ld2450_vars == <<recv_vars, cfg_vars, ld2450_status, ld2450_target, uptime, local_time,
                 msg_logged, query, active_at, tx, rx>>

ClientSlots == 0..(TCP_CLIENT_MAX - 1)

\* the slots whose client is connected: if (client[index])
Connected(t) == {i \in ClientSlots : t.client[i] # 0}

\* the body of TCPServer::stop when server != nullptr
Stopped(t) == [t EXCEPT !.server = FALSE, !.client = [i \in ClientSlots |-> 0]]

\* TCPServer::stop ()
TcpStop ==
  /\ IF tcp_server.server
     THEN /\ tcp_server' = Stopped(tcp_server)
          /\ net' = [net EXCEPT !.pending = FALSE]
     ELSE UNCHANGED relay_vars
  /\ UNCHANGED ld2450_vars

\* TCPServer::start (port)
TcpStart(port) ==
  /\ IF port > 0
     THEN /\ tcp_server' = [(IF tcp_server.server THEN Stopped(tcp_server) ELSE tcp_server)
                              EXCEPT !.server = TRUE, !.buffer_index = 0]
          /\ net' = [net EXCEPT !.pending = FALSE]
     ELSE UNCHANGED relay_vars
  /\ UNCHANGED ld2450_vars

FlushNeeded_Late(index, to_send) == index > TCP_DATA_MAX \/ to_send = 13

\* (buffer_index == sizeof (buffer)) || (to_send == 13)
FlushNeeded(index, to_send) == index = TCP_DATA_MAX \/ to_send = 13

\* TCPServer::send (to_send): net.oob tells that a character was stored
\* outside buffer[0..63]
TcpSend(to_send) ==
  /\ IF tcp_server.server
     THEN LET index == ToUint8(tcp_server.buffer_index + 1)
              outside == net.oob \/ tcp_server.buffer_index >= TCP_DATA_MAX
          IN IF FlushNeeded(index, to_send)
             THEN /\ tcp_server' = [tcp_server EXCEPT !.buffer_index = 0]
                  /\ net' = [net EXCEPT !.ch = to_send, !.wrote = index,
                                        !.to = Connected(tcp_server), !.oob = outside]
             ELSE /\ tcp_server' = [tcp_server EXCEPT !.buffer_index = index]
                  /\ net' = [net EXCEPT !.ch = to_send, !.wrote = 0, !.to = {},
                                        !.oob = outside]
     ELSE /\ net' = [net EXCEPT !.ch = to_send, !.wrote = 0, !.to = {}]
          /\ UNCHANGED tcp_server
  /\ UNCHANGED ld2450_vars

\* for (index ...) if (!client[index]) ... break: the first empty slot, or
\* TCP_CLIENT_MAX if there is none
EmptySlot(t) ==
  IF \E i \in ClientSlots : t.client[i] = 0
  THEN CHOOSE i \in ClientSlots :
         t.client[i] = 0 /\ \A j \in ClientSlots : t.client[j] = 0 => i <= j
  ELSE TCP_CLIENT_MAX

\* index = client_next++ % TCP_CLIENT_MAX
VictimSlot(t) == t.client_next % TCP_CLIENT_MAX

\* TCPServer::manage_client ()
TcpManageClient ==
  /\ IF tcp_server.server /\ net.pending
     THEN /\ tcp_server' =
               IF EmptySlot(tcp_server) < TCP_CLIENT_MAX
               THEN [tcp_server EXCEPT !.client[EmptySlot(tcp_server)] = net.conns + 1]
               ELSE [tcp_server EXCEPT !.client[VictimSlot(tcp_server)] = net.conns + 1,
                                       !.client_next = ToUint8(tcp_server.client_next + 1)]
          /\ net' = [net EXCEPT !.pending = FALSE, !.conns = net.conns + 1]
     ELSE UNCHANGED relay_vars
  /\ UNCHANGED ld2450_vars

\* a client connects to the listening server
ClientConnects ==
  /\ tcp_server.server
  /\ ~net.pending
  /\ net.conns < MaxConns
  /\ net' = [net EXCEPT !.pending = TRUE]
  /\ UNCHANGED <<tcp_server, ld2450_vars>>

\* a connected client closes its connection
ClientCloses ==
  \E i \in Connected(tcp_server) :
    /\ tcp_server' = [tcp_server EXCEPT !.client[i] = 0]
    /\ UNCHANGED <<net, ld2450_vars>>

\* tcp_start without a port, and with one
PortSamples == {0, 8888}

\* a carriage return and another character
CharSamples == {13, 65}

TcpInit ==
  /\ InitCommon
  /\ free_ea6 \in InitSettings
  /\ ld2450_config = LoadConfig(free_ea6)
  /\ ld2450_status = [pserial |-> FALSE, enabled |-> FALSE, counter |-> 0,
                      timestamp |-> U32(0)]
  /\ uptime = FirstUptime
  /\ local_time = U32(BootTime + FirstUptime)
  /\ tx = [frame |-> 1, pos |-> 0, faults |-> 0]

TcpNext ==
  \/ \E port \in PortSamples : TcpStart(port)
  \/ TcpStop
  \/ \E to_send \in CharSamples : TcpSend(to_send)
  \/ TcpManageClient
  \/ ClientConnects
  \/ ClientCloses

SpecTcp == TcpInit /\ [][TcpNext]_vars

\* ------------------------------------------------------------------------
\* The decoder alone: a frame with any raw fields, one byte short of complete
\* ------------------------------------------------------------------------
\* raw 16-bit fields: both zeros, small and large magnitudes of each sign
RawSamples == {0, 1, 2, 3000, 32767, 32768, 32769, 32770, 38768, 65535}

RawSpeeds == {0, 5, 32768, 32778}

\* the first 29 bytes of a frame whose three slots hold the raw records t
FramePrefix(t) ==
  HeaderBytes \o TargetBytes(t[0]) \o TargetBytes(t[1]) \o TargetBytes(t[2])
              \o <<FooterBytes[1]>>

\* the receiver after the bytes of pre were read from its initial state
DecodeInit ==
  /\ \E x \in RawSamples, y \in RawSamples, s \in RawSpeeds, slot \in 0..(LD2450_TARGET_MAX - 1) :
       LET t == [i \in 0..(LD2450_TARGET_MAX - 1) |->
                   IF i = slot THEN [x |-> x, y |-> y, s |-> s]
                   ELSE RawFrames[1][i + 1]]
           pre == FramePrefix(t)
       IN /\ arr_body = [i \in 0..(LD2450_MSG_SIZE_MAX - 1) |->
                           IF i < Len(pre) THEN pre[i + 1] ELSE 0]
          /\ idx_body = Len(pre)
          /\ arr_last = [i \in 0..3 |-> pre[Len(pre) - 3 + i]]
  /\ InitOther
  /\ query = NoQuery
  /\ active_at = U32(0)
  /\ ld2450_target = [i \in 0..(LD2450_TARGET_MAX - 1) |-> ZeroTarget]
  /\ msg_logged = FALSE
  /\ free_ea6 \in InitSettings
  /\ ld2450_config = LoadConfig(free_ea6)
  /\ ld2450_status = [pserial |-> TRUE, enabled |-> TRUE, counter |-> 0, timestamp |-> U32(0)]
  /\ uptime = FirstUptime
  /\ local_time = U32(BootTime + FirstUptime)
  /\ tx = [frame |-> 1, pos |-> 29, faults |-> 0]

\* LD2450ReceiveData reads the last byte of the frame
LD2450ReceiveFooter ==
  /\ ld2450_status.enabled
  /\ tx.pos = 29
  /\ LineGood
  /\ UNCHANGED <<cfg_vars, uptime, local_time, query, other_vars>>

DecodeNext == LD2450ReceiveFooter

SpecDecode == DecodeInit /\ [][DecodeNext]_vars

\* ------------------------------------------------------------------------
\* Properties
\* ------------------------------------------------------------------------
\* value of a uint32_t below 2^31
Val(w) == w.hi * 65536 + w.lo

WindowIsHeader == arr_last = [i \in 0..3 |-> HeaderBytes[i + 1]]

BodyStartsWithHeader == \A j \in 0..3 : arr_body[j] = HeaderBytes[j + 1]

C2_DecodedFrameComplete ==
  msg_logged => (BodyStartsWithHeader /\ arr_body[28] = 85 /\ arr_body[29] = 204)

\* the step appends the 30th byte and the last two received bytes are 55 CC
CompletesFrame ==
  /\ uptime > 10
  /\ idx_body = 29 /\ idx_body' = 0
  /\ arr_last[3] = 85 /\ arr_last'[3] = 204

\* C3: the target records, the active-target counter and the last-active
\* timestamp change only on the byte that completes a frame; every other
\* step, the configuration commands included, leaves them unchanged.
C3_ChangeOnlyOnFrame ==
  [][(\/ ld2450_target' # ld2450_target
      \/ ld2450_status'.counter # ld2450_status.counter
      \/ ld2450_status'.timestamp # ld2450_status.timestamp) => CompletesFrame]_vars

\* decoded targets are kept while the buffer is saturated and after a command
\* changed the zone
C3_Witness ==
  /\ ld2450_target[1].dist > 0
  /\ idx_body = 32
  /\ ld2450_config.x1 = 0

\* C4: the buffer length stays in 0..32 and no byte is stored outside indexes
\* 0..31; at length 32 a byte is dropped unless it completes a header; no
\* frame is decoded from a buffer of length 30 or more until a header re-arms it.
C4_Capacity ==
  /\ [](idx_body \in 0..32 /\ DOMAIN arr_body = 0..31)
  /\ [][/\ idx_body = 32 =>
            \/ idx_body' = 32 /\ arr_body' = arr_body
            \/ idx_body' = 4 /\ arr_last' = [i \in 0..3 |-> HeaderBytes[i + 1]]
        /\ idx_body >= 30 => (~msg_logged' /\ ld2450_target' = ld2450_target)]_vars

\* the buffer is saturated and the byte just received was dropped
C4_Witness == idx_body = 32 /\ arr_last[3] # arr_body[31]

\* C5: after every completed frame each target's zone flag equals
\* (distance > 0) and x1 <= x <= x2 and y1 <= y <= y2 for the configuration
\* in force; a target with distance 0 is never flagged.
C5_ZoneFlag ==
  /\ msg_logged =>
       \A i \in 0..2 :
         ld2450_target[i].zone =
           (/\ ld2450_target[i].dist > 0
            /\ ld2450_config.x1 <= ld2450_target[i].x
            /\ ld2450_target[i].x <= ld2450_config.x2
            /\ ld2450_config.y1 <= ld2450_target[i].y
            /\ ld2450_target[i].y <= ld2450_config.y2)
  /\ \A i \in 0..2 : ld2450_target[i].dist = 0 => ~ld2450_target[i].zone

\* a frame was just decoded with an empty slot inside the rectangle (not
\* flagged) and a target on the rectangle's far corner (flagged)
C5_Witness ==
  /\ msg_logged
  /\ ld2450_config.x1 = 0 /\ ld2450_config.y1 = 0
  /\ ld2450_target[0].dist = 0 /\ ~ld2450_target[0].zone
  /\ ld2450_target[1].x = ld2450_config.x2 /\ ld2450_target[1].zone

ZoneValid ==
  /\ ld2450_config.x1 < ld2450_config.x2
  /\ ld2450_config.y1 < ld2450_config.y2

AtCorner1(t) == t.x = ld2450_config.x1 /\ t.y = ld2450_config.y1

AtCorner2(t) == t.x = ld2450_config.x2 /\ t.y = ld2450_config.y2

\* C6 as stated: for every valid zone a decoded target at exactly (x1, y1) or
\* (x2, y2) is a zone member, a zone with a corner at the origin included, and
\* a target with x = x1 - 1 is not.
C6_ClosedRectangle ==
  (msg_logged /\ ZoneValid) =>
    \A i \in 0..2 :
      /\ (AtCorner1(ld2450_target[i]) \/ AtCorner2(ld2450_target[i]))
           => ld2450_target[i].zone
      /\ ld2450_target[i].x = ld2450_config.x1 - 1 => ~ld2450_target[i].zone

\* C6 amended: for every valid zone a decoded target at exactly (x1, y1) or
\* (x2, y2) is a zone member unless it is at the sensor origin (0, 0), where
\* its distance is 0 and it is not a member; a target with x = x1 - 1 is not
\* a member.
C6_ClosedRectangleExceptOrigin ==
  (msg_logged /\ ZoneValid) =>
    \A i \in 0..2 :
      /\ (AtCorner1(ld2450_target[i]) \/ AtCorner2(ld2450_target[i]))
           => (ld2450_target[i].zone
                 <=> ~(ld2450_target[i].x = 0 /\ ld2450_target[i].y = 0))
      /\ ld2450_target[i].x = ld2450_config.x1 - 1 => ~ld2450_target[i].zone

\* a frame was just decoded with targets on both corners of the zone and one
\* at x1 - 1
C6_Witness ==
  /\ msg_logged /\ ZoneValid
  /\ AtCorner1(ld2450_target[0]) /\ ld2450_target[0].zone
  /\ AtCorner2(ld2450_target[1]) /\ ld2450_target[1].zone
  /\ ld2450_target[2].x = ld2450_config.x1 - 1 /\ ~ld2450_target[2].zone

\* C7: once a frame with an active target was decoded at time t0, and
\* whatever zero-active frames follow, the presence query (no delay given)
\* is true at every time in [t0, t0 + T) and false from t0 + T on.
C7_Sticky ==
  active_at # U32(0) =>
    \A delay \in {U32(0), UINT32_MAX} :
      GetDetectionStatus(ld2450_status.timestamp, delay, ld2450_config, LocalTime)
        <=> (Val(LocalTime) < Val(active_at) + ld2450_config.timeout)

\* presence has expired after a zero-active frame that followed an active one
C7_Witness ==
  /\ active_at # U32(0)
  /\ msg_logged /\ ld2450_status.counter = 0
  /\ Val(LocalTime) = Val(active_at) + ld2450_config.timeout
  /\ ~GetDetectionStatus(ld2450_status.timestamp, U32(0), ld2450_config, LocalTime)

\* ts + t > now, the sum not reduced modulo 2^32
SumGt(ts, t, now) ==
  LET lo == ts.lo + t.lo
      hi == ts.hi + t.hi + (lo \div 65536)
  IN hi > now.hi \/ (hi = now.hi /\ (lo % 65536) > now.lo)

\* C8: the presence query returns true exactly when the timestamp is nonzero
\* and timestamp + T > now without wraparound, T being the configured timeout
\* for delay 0 or UINT32_MAX and the delay otherwise.
C8_QueryExact ==
  query.called =>
    (query.result <=>
       (/\ ld2450_status.timestamp # U32(0)
        /\ SumGt(ld2450_status.timestamp,
                 IF query.delay \in {U32(0), UINT32_MAX}
                 THEN U32(ld2450_config.timeout) ELSE query.delay,
                 LocalTime)))

\* C9: after init/load from any persisted bytes and any sequence of commands
\* the zone is non-degenerate: x1 < x2 and y1 < y2.
C9_ZoneNonDegenerate == ZoneValid

\* C10: after load and after any set-distance or set-zone command, x1 and x2
\* are in -6000..6000 and y1 and y2 in 0..6000.
C10_BoundsInRange ==
  /\ ld2450_config.x1 \in -6000..6000
  /\ ld2450_config.x2 \in -6000..6000
  /\ ld2450_config.y1 \in 0..6000
  /\ ld2450_config.y2 \in 0..6000

\* C11: the configured timeout is positive in every reachable state, and a
\* set-timeout with a positive payload p leaves the timeout equal to p.
C11_TimeoutPositive ==
  /\ [](ld2450_config.timeout > 0)
  /\ [][\A p \in CfgPayloads :
          (p > 0 /\ Timeout(p)) => ld2450_config'.timeout = p]_vars

\* C12: after every set operation the configuration in memory equals what
\* LD2450LoadConfig produces from the 5 persisted bytes.
C12_MemoryIsLoadOfPersisted == ld2450_config = LoadConfig(free_ea6)

\* the raw 16-bit field k (0 x, 1 y, 2 speed) of slot i in the frame buffer,
\* read as a signed 16-bit integer
RawField(i, k) == arr_body[4 + 8 * i + 2 * k] + 256 * arr_body[5 + 8 * i + 2 * k]

Signed16(r) == IF r >= 32768 THEN r - 65536 ELSE r

\* the sign correction as the specification states it
Corr(v) == IF v < 0 THEN (0 - v) - 32768 ELSE v

\* C13: for every slot of a completed frame the decoded x and speed are the
\* sign-corrected raw values and the decoded y is the negated sign-corrected raw y.
C13_DecodeFields ==
  msg_logged =>
    \A i \in 0..2 :
      /\ ld2450_target[i].x = Corr(Signed16(RawField(i, 0)))
      /\ ld2450_target[i].y = 0 - Corr(Signed16(RawField(i, 1)))
      /\ ld2450_target[i].speed = Corr(Signed16(RawField(i, 2)))

C13_Witness ==
  /\ msg_logged
  /\ \E i \in 0..2 :
       /\ RawField(i, 0) = 38768 /\ ld2450_target[i].x = -6000
       /\ RawField(i, 1) = 32769 /\ ld2450_target[i].y = 1
       /\ RawField(i, 2) = 32778 /\ ld2450_target[i].speed = -10

\* the sensor's encoding of d: bit 15 set for a negative d, magnitude below
SensorEncoding(d) == IF d < 0 THEN 32768 + (0 - d) ELSE d

\* C14: the sign correction inverts the sensor's encoding: a raw field that
\* encodes d in -32767..32767 decodes to d, and both encodings of zero (0x0000,
\* 0x8000) decode to 0.
C14_RoundTrip ==
  msg_logged =>
    \A i \in 0..2 : \A k \in 0..2 :
      LET raw == RawField(i, k)
          v == CASE k = 0 -> ld2450_target[i].x
                 [] k = 1 -> 0 - ld2450_target[i].y
                 [] k = 2 -> ld2450_target[i].speed
      IN /\ v \in -32767..32767
         /\ raw \in {0, 32768} => v = 0
         /\ raw # 32768 => SensorEncoding(v) = raw

C14_Witness ==
  /\ msg_logged
  /\ \E i \in 0..2 :
       /\ RawField(i, 0) = 65535 /\ ld2450_target[i].x = -32767
       /\ RawField(i, 1) = 32768 /\ ld2450_target[i].y = 0
       /\ RawField(i, 2) = 5 /\ ld2450_target[i].speed = 5

\* C15: the stored distance is the square root of x*x + y*y rounded to the
\* nearest integer.
C15_DistanceNearest ==
  msg_logged =>
    \A i \in 0..2 :
      LET n == ld2450_target[i].x * ld2450_target[i].x
               + ld2450_target[i].y * ld2450_target[i].y
          d == ld2450_target[i].dist
      IN /\ d = 0 => n = 0
         /\ d > 0 => (d * d - d + 1 <= n /\ n <= d * d + d)

\* C15 (amended): the stored distance is the square root of x*x + y*y rounded
\* down to an integer.
C15_DistanceFloor ==
  msg_logged =>
    \A i \in 0..2 :
      LET n == ld2450_target[i].x * ld2450_target[i].x
               + ld2450_target[i].y * ld2450_target[i].y
          d == ld2450_target[i].dist
      IN d >= 0 /\ d * d <= n /\ n < (d + 1) * (d + 1)

C15_Witness ==
  /\ msg_logged
  /\ \E i \in 0..2 :
       /\ ld2450_target[i].x = 2 /\ ld2450_target[i].y = -2
       /\ ld2450_target[i].dist = 2

\* x, y, speed and distance of slot i as the bytes of the frame buffer alone
\* determine them
FrameFieldsOf(i, t) ==
  /\ t.x = Corr(Signed16(RawField(i, 0)))
  /\ t.y = 0 - Corr(Signed16(RawField(i, 1)))
  /\ t.speed = Corr(Signed16(RawField(i, 2)))
  /\ t.dist >= 0
  /\ t.dist * t.dist <= t.x * t.x + t.y * t.y
  /\ t.x * t.x + t.y * t.y < (t.dist + 1) * (t.dist + 1)

\* C16: whatever the buffer, the targets, the counter, the timestamp and the
\* configuration were before, the Target records after a completed frame are
\* those the same frame bytes give in the run from the initial state (default
\* configuration), zone flag included.
C16_FrameAloneDetermines ==
  msg_logged =>
    \A i \in 0..2 :
      /\ FrameFieldsOf(i, ld2450_target[i])
      /\ ld2450_target[i].zone =
           (/\ ld2450_target[i].dist > 0
            /\ -6000 <= ld2450_target[i].x /\ ld2450_target[i].x <= 6000
            /\ 0 <= ld2450_target[i].y /\ ld2450_target[i].y <= 6000)

\* C16 (amended): x, y, speed and distance of the three slots depend on the
\* frame bytes only; the zone flag depends on the frame bytes and on the
\* configuration in force when the frame completes, and on nothing else.
C16_FrameAndConfigDetermine ==
  msg_logged =>
    \A i \in 0..2 :
      /\ FrameFieldsOf(i, ld2450_target[i])
      /\ ld2450_target[i].zone =
           (/\ ld2450_target[i].dist > 0
            /\ ld2450_config.x1 <= ld2450_target[i].x
            /\ ld2450_target[i].x <= ld2450_config.x2
            /\ ld2450_config.y1 <= ld2450_target[i].y
            /\ ld2450_target[i].y <= ld2450_config.y2)

\* the frame with a target at (6000, 6000) completes under the zone
\* 0..3000 x 0..3000 after a fault on the line
C16_Witness ==
  /\ msg_logged
  /\ tx.faults > 0
  /\ ld2450_config.x2 = 3000
  /\ \E i \in 0..2 :
       /\ RawField(i, 0) = 6000 /\ ld2450_target[i].x = 6000
       /\ ld2450_target[i].y = 6000
       /\ ~ld2450_target[i].zone

\* C17: a set-distance with a non-empty argument leaves x1 = -6000 and
\* x2 = 6000 and the timeout as it was; with an empty argument it changes
\* neither the configuration nor the persisted bytes.  (The command reads two
\* tokens at most, so arguments of up to two tokens give every step it can take.)
C17_DistEffect ==
  [][\A data \in CfgData(2) :
       Dist(data) =>
         IF data.empty
         THEN ld2450_config' = ld2450_config /\ free_ea6' = free_ea6
         ELSE /\ ld2450_config'.x1 = -6000
              /\ ld2450_config'.x2 = 6000
              /\ ld2450_config'.timeout = ld2450_config.timeout]_vars

\* C18: from any configuration the reset leaves x1 = -6000, x2 = 6000, y1 = 0,
\* y2 = 6000 in memory, persists their encodings 68, 188, 128, 188, leaves the
\* timeout as it was, and a load of the persisted bytes returns the same bounds.
C18_ResetEffect ==
  [][Reset =>
       /\ ld2450_config'.x1 = -6000 /\ ld2450_config'.x2 = 6000
       /\ ld2450_config'.y1 = 0 /\ ld2450_config'.y2 = 6000
       /\ ld2450_config'.timeout = ld2450_config.timeout
       /\ free_ea6'[26] = 68 /\ free_ea6'[27] = 188
       /\ free_ea6'[28] = 128 /\ free_ea6'[29] = 188
       /\ (free_ea6'[26] - 128) * 100 = -6000
       /\ (free_ea6'[27] - 128) * 100 = 6000
       /\ (free_ea6'[28] - 128) * 100 = 0
       /\ (free_ea6'[29] - 128) * 100 = 6000
       /\ LET c == LoadConfig(free_ea6')
          IN c.x1 = -6000 /\ c.x2 = 6000 /\ c.y1 = 0 /\ c.y2 = 6000]_vars

\* the state after ld2450_tout 300 and a reset
C18_Witness ==
  /\ ld2450_config = [timeout |-> 44, x1 |-> -6000, x2 |-> 6000, y1 |-> 0, y2 |-> 6000]
  /\ free_ea6 = (25 :> 44) @@ (26 :> 68) @@ (27 :> 188) @@ (28 :> 128) @@ (29 :> 188)

\* v / 100 with the quotient truncated toward zero
Hundreds(v) == IF v >= 0 THEN v \div 100 ELSE 0 - ((0 - v) \div 100)

ValidConfig(c) ==
  /\ c.timeout \in 1..255
  /\ \A v \in {c.x1, c.x2, c.y1, c.y2} : v % 100 = 0
  /\ -6000 <= c.x1 /\ c.x1 < c.x2 /\ c.x2 <= 6000
  /\ 0 <= c.y1 /\ c.y1 < c.y2 /\ c.y2 <= 6000

\* C19: a save stores trunc(v / 100) + 128 for each bound v, the quotient
\* truncated toward zero, so that -150 and 150 reload as -100 and 100; and a load
\* of the bytes a save wrote from a valid configuration (timeout in 1..255,
\* bounds multiples of 100, -6000 <= x1 < x2 <= 6000, 0 <= y1 < y2 <= 6000)
\* returns that configuration.
C19_SaveLoad ==
  /\ [][LD2450SaveConfig =>
          /\ free_ea6'[25] = ld2450_config.timeout
          /\ free_ea6'[26] = Hundreds(ld2450_config.x1) + 128
          /\ free_ea6'[27] = Hundreds(ld2450_config.x2) + 128
          /\ free_ea6'[28] = Hundreds(ld2450_config.y1) + 128
          /\ free_ea6'[29] = Hundreds(ld2450_config.y2) + 128
          /\ (ld2450_config.x1 = -150 => (free_ea6'[26] - 128) * 100 = -100)
          /\ (ld2450_config.x1 = 150 => (free_ea6'[26] - 128) * 100 = 100)]_vars
  /\ [][(/\ LD2450LoadConfig
         /\ ValidConfig(ld2450_config)
         /\ free_ea6[25] = ld2450_config.timeout
         /\ free_ea6[26] = Hundreds(ld2450_config.x1) + 128
         /\ free_ea6[27] = Hundreds(ld2450_config.x2) + 128
         /\ free_ea6[28] = Hundreds(ld2450_config.y1) + 128
         /\ free_ea6[29] = Hundreds(ld2450_config.y2) + 128)
        => ld2450_config' = ld2450_config]_vars

\* the configuration -150, 150, 150, 5900 after a save and a load
C19_Witness ==
  /\ ld2450_config = [timeout |-> 255, x1 |-> -100, x2 |-> 100, y1 |-> 100, y2 |-> 5900]
  /\ free_ea6 = (25 :> 255) @@ (26 :> 127) @@ (27 :> 129) @@ (28 :> 129) @@ (29 :> 187)

\* C20: while the driver is not enabled, no poll changes the byte window, the
\* message buffer, the target records, the active counter or the last-active
\* timestamp: they keep their initial values, and every presence query returns
\* false.
C20_DisabledInert ==
  ~ld2450_status.enabled =>
    /\ \A i \in 0..3 : arr_last[i] = 0
    /\ idx_body = 0
    /\ \A i \in DOMAIN arr_body : arr_body[i] = 0
    /\ \A i \in 0..2 : ld2450_target[i] = [x |-> 0, y |-> 0, speed |-> 0, dist |-> 0, zone |-> FALSE]
    /\ ld2450_status.counter = 0
    /\ ld2450_status.timestamp = [hi |-> 0, lo |-> 0]
    /\ (query.called => ~query.result)

\* the port was created but did not open; a second has passed and the
\* presence was queried
C20_Witness ==
  /\ ~ld2450_status.enabled
  /\ ld2450_status.pserial
  /\ uptime > FirstUptime
  /\ query.called /\ ~query.result

\* C21: between processed bytes the active-target counter is in 0..3 and is
\* the number of target slots whose zone flag is true; it starts from 0 at
\* each completed frame and does not accumulate across frames.
C21_CounterIsActiveCount ==
  /\ ld2450_status.counter \in 0..3
  /\ ld2450_status.counter = Cardinality({i \in 0..2 : ld2450_target[i].zone})

\* a frame without an active target completes after one with active targets
C21_Witness ==
  /\ msg_logged
  /\ ld2450_status.counter = 0
  /\ ld2450_status.timestamp # [hi |-> 0, lo |-> 0]
  /\ \A i \in 0..2 : ~ld2450_target[i].zone

\* C22: on each completed frame the last-active timestamp becomes the current
\* wall-clock time if the frame has an active target and is left as it was
\* otherwise; no other step changes it; it never decreases and never returns
\* to 0 once set (the clock does not decrease).
C22_TimestampMonotone ==
  [][/\ ~Gt32(local_time, local_time')
     /\ LET ts == ld2450_status.timestamp
            ts1 == ld2450_status'.timestamp
        IN /\ (msg_logged' /\ (\E i \in 0..2 : ld2450_target'[i].zone)) => ts1 = local_time
           /\ (msg_logged' /\ (\A i \in 0..2 : ~ld2450_target'[i].zone)) => ts1 = ts
           /\ ~msg_logged' => ts1 = ts
           /\ ~Gt32(ts, ts1)
           /\ (ts # [hi |-> 0, lo |-> 0] => ts1 # [hi |-> 0, lo |-> 0])]_vars

\* a frame with an active target completes after the clock has advanced
C22_Witness ==
  /\ msg_logged
  /\ ld2450_status.counter > 0
  /\ ld2450_status.timestamp = local_time
  /\ uptime > FirstUptime

\* C23: LD2450LoadConfig decodes each bound as (byte - 128) * 100, then makes
\* timeout 0 into 5, x1 < -6000 into -6000, x2 > 6000 into 6000, y1 < 0 into 0,
\* y2 > 6000 into 6000, then x2 into 6000 if x2 <= x1 and y2 into 6000 if
\* y2 <= y1; stored x2 <= x1 always gives x2 = 6000.
C23_LoadExact ==
  [][LD2450LoadConfig =>
       LET t0 == free_ea6[25]
           x1r == (free_ea6[26] - 128) * 100
           x2r == (free_ea6[27] - 128) * 100
           y1r == (free_ea6[28] - 128) * 100
           y2r == (free_ea6[29] - 128) * 100
           x1c == IF x1r < -6000 THEN -6000 ELSE x1r
           x2c == IF x2r > 6000 THEN 6000 ELSE x2r
           y1c == IF y1r < 0 THEN 0 ELSE y1r
           y2c == IF y2r > 6000 THEN 6000 ELSE y2r
       IN /\ ld2450_config'.timeout = (IF t0 = 0 THEN 5 ELSE t0)
          /\ ld2450_config'.x1 = x1c
          /\ ld2450_config'.x2 = (IF x2c <= x1c THEN 6000 ELSE x2c)
          /\ ld2450_config'.y1 = y1c
          /\ ld2450_config'.y2 = (IF y2c <= y1c THEN 6000 ELSE y2c)
          /\ (x2r <= x1r => ld2450_config'.x2 = 6000)]_vars

\* loaded from the bytes 0, 200, 200, 0, 200: x1 = 7200 kept, x2 = 7200 clamped
\* to 6000 and then reset as x2 <= x1, y1 = -12800 raised to 0, y2 clamped
C23_Witness ==
  /\ free_ea6 = (25 :> 0) @@ (26 :> 200) @@ (27 :> 200) @@ (28 :> 0) @@ (29 :> 200)
  /\ ld2450_config = [timeout |-> 5, x1 |-> 7200, x2 |-> 6000, y1 |-> 0, y2 |-> 6000]

\* C24: a call of LD2450ReceiveData that finds n bytes in the port, with no
\* arrival during the call, returns; at its return it has read exactly those n
\* bytes, in the order of their arrival, and the port is empty; with n = 0 the
\* call changes nothing of the driver's state.
C24_PollDrains ==
  /\ [](rx.polling => rx.read \o rx.queue = rx.entry)
  /\ [][(rx.polling /\ ~rx'.polling) =>
          (rx.read = rx.entry /\ rx'.queue = <<>>)]_vars
  /\ [][((rx.polling # rx'.polling) /\ rx'.entry = <<>>) =>
          UNCHANGED <<recv_vars, cfg_vars, ld2450_status, ld2450_target, active_at>>]_vars
  /\ (rx.polling ~> ~rx.polling)

\* a call that found three bytes has returned
C24_Witness ==
  /\ ~rx.polling
  /\ Len(rx.entry) = 3
  /\ rx.read = rx.entry
  /\ idx_body >= 3

\* C25: after the start-up delay, whatever the window and the buffer hold
\* (after any noise and any frames cut short), a frame that arrives whole,
\* AA FF 03 00 + 24 payload bytes + 55 CC, is decoded on its last byte with
\* idx_body = 0 afterwards, on no earlier byte of it, and such a decode
\* eventually happens once the sensor sends frames.
C25_Resync ==
  /\ [][(tx.frame >= 1 /\ tx.pos = 29 /\ tx'.pos = 0) =>
          (msg_logged' /\ idx_body' = 0)]_vars
  /\ [][(tx'.frame >= 1 /\ tx'.pos # 0) => ~msg_logged']_vars
  /\ ((tx.frame >= 1) ~> msg_logged)

\* a frame is decoded although the buffer was full (idx_body = 32) when it began
C25_Witness ==
  /\ msg_logged
  /\ tx.frame >= 1 /\ tx.pos = 0
  /\ idx_body = 0
  /\ arr_body[30] = FooterBytes[2] /\ arr_body[31] = FooterBytes[2]

\* C26: for every raw field the decoded x, y and speed lie in -32767..32767,
\* a negative raw value decodes to a value <= 0 (for y: before the flip), the
\* distance is at most 46339, and it is 0 exactly when x = 0 and y = 0.
C26_NoOverflow ==
  msg_logged =>
    \A i \in 0..2 :
      LET t == ld2450_target[i]
      IN /\ t.x \in -32767..32767 /\ t.y \in -32767..32767 /\ t.speed \in -32767..32767
         /\ (RawField(i, 0) >= 32768 => t.x <= 0)
         /\ (RawField(i, 1) >= 32768 => 0 - t.y <= 0)
         /\ (RawField(i, 2) >= 32768 => t.speed <= 0)
         /\ t.dist \in 0..46339
         /\ (t.dist = 0 <=> (t.x = 0 /\ t.y = 0))

\* the raw fields 0xFFFF, 0xFFFF and 0x8000 decode to the largest distance
C26_Witness ==
  /\ msg_logged
  /\ \E i \in 0..2 :
       /\ RawField(i, 0) = 65535 /\ RawField(i, 1) = 65535 /\ RawField(i, 2) = 32768
       /\ ld2450_target[i].x = -32767 /\ ld2450_target[i].y = 32767
       /\ ld2450_target[i].speed = 0
       /\ ld2450_target[i].dist = 46339

\* C27: while uptime <= 10 every byte read leaves the window, the buffer, the
\* targets, the counter and the timestamps as they were at initialisation, so
\* nothing received during the delay is detected; and a header of which only
\* the last bytes are read after the delay is not detected either.
C27_StartDelay ==
  /\ [](uptime <= 10 =>
          /\ idx_body = 0
          /\ \A i \in 0..3 : arr_last[i] = 0
          /\ \A i \in DOMAIN arr_body : arr_body[i] = 0
          /\ \A i \in 0..2 : ld2450_target[i] = [x |-> 0, y |-> 0, speed |-> 0, dist |-> 0, zone |-> FALSE]
          /\ ld2450_status.counter = 0
          /\ ld2450_status.timestamp = [hi |-> 0, lo |-> 0]
          /\ active_at = [hi |-> 0, lo |-> 0]
          /\ ~msg_logged)
  /\ [][(uptime <= 10 /\ tx' # tx) =>
          UNCHANGED <<recv_vars, ld2450_target, ld2450_status, active_at>>]_vars
  /\ []((tx.pos = 4 /\ ~(arr_last[0] = 170 /\ arr_last[1] = 255
                         /\ arr_last[2] = 3 /\ arr_last[3] = 0)) =>
          (idx_body < 4 /\ ~(arr_body[0] = 170 /\ arr_body[1] = 255)))

\* the delay ended after the first two bytes of a header: the window holds
\* only its last two bytes, and no header was found
C27_Witness ==
  /\ uptime > 10
  /\ tx.pos = 4
  /\ arr_last = (0 :> 0) @@ (1 :> 0) @@ (2 :> 3) @@ (3 :> 0)
  /\ idx_body = 2

\* C28: when manage_client accepts a connection while both client slots are
\* occupied, the client it disconnects is the one connected for the longest
\* time, whatever connections and disconnections came before.
C28_KillsOldest ==
  [][(/\ net'.conns = net.conns + 1
      /\ \A i \in 0..1 : tcp_server.client[i] # 0)
     => \A i \in 0..1 :
          tcp_server'.client[i] # tcp_server.client[i] =>
            \A j \in 0..1 : tcp_server.client[i] <= tcp_server.client[j]]_vars

\* C29: buffer_index is in 0..63 whenever send is entered and no character is
\* stored outside the buffer; a send on a running server flushes the buffer to
\* the connected clients and resets the index exactly when the character is a
\* carriage return or the index reaches 64; a send on a stopped server changes
\* nothing.
C29_BufferBound ==
  /\ [](tcp_server.buffer_index \in 0..63 /\ ~net.oob)
  /\ [][\A c \in CharSamples :
          TcpSend(c) =>
            IF tcp_server.server
            THEN LET flush == (c = 13 \/ tcp_server.buffer_index + 1 = 64)
                 IN /\ flush => /\ tcp_server'.buffer_index = 0
                                /\ net'.wrote = tcp_server.buffer_index + 1
                                /\ net'.to = {i \in 0..1 : tcp_server.client[i] # 0}
                    /\ ~flush => /\ tcp_server'.buffer_index = tcp_server.buffer_index + 1
                                 /\ net'.wrote = 0
                    /\ tcp_server'.client = tcp_server.client
                    /\ tcp_server'.server
            ELSE tcp_server' = tcp_server /\ net'.wrote = 0]_vars

\* the 64th character without a carriage return was sent to two clients
C29_Witness ==
  /\ tcp_server.server
  /\ tcp_server.buffer_index = 0
  /\ net.ch = 65 /\ net.wrote = 64
  /\ net.to = {0, 1}

====
